---- MODULE Spec2Model ----
(***************************************************************************)
(* Model of src/main.py: the IndiaBix current-affairs quiz pipeline.       *)
(*                                                                         *)
(* Representation of Python values:                                        *)
(*   - a URL / href string is the sequence of its "/"-separated segments   *)
(*     (what str.split("/") returns), so "" is <<"">>;                     *)
(*   - a short token (answer key, hidden input value) is the sequence of   *)
(*     its code points, so "C" is <<67>> and "" is <<>>;                   *)
(*   - a free text (question, option, explanation) is its length;          *)
(*   - an optional value (None or x) is <<>> or <<x>>.                     *)
(***************************************************************************)
EXTENDS Integers, Sequences, FiniteSets, TLC

VARIABLES
    store,          \* the Mongo collection: a set of documents
    index,          \* hrefs of the index page's link elements, in page order
    run,            \* number of runs of main() started so far
    month_digit,    \* get_current_month(); the runs fall in one month
    pc,             \* position of main()
    stored_urls,    \* main's local stored_urls
    valid_links,    \* main's local valid_links
    link_i,         \* position of the for loop in valid_links
    question_docs,  \* main's local question_docs
    files,          \* temporary files on disk
    created,        \* files the current run has created
    tmp_n,          \* number of NamedTemporaryFile names handed out
    attempts,       \* bot.send_document calls made for the current document
    abort,          \* the exception that ended the run, or "none"
    log             \* history: what the runs did, in order

main_vars == <<store, index, run, month_digit, pc, stored_urls, valid_links,
               link_i, question_docs, files, created, tmp_n, attempts, abort, log>>

VARIABLES
    fn_pc,          \* position of the single-function specifications
    store0,         \* the collection a store operation started from
    st_urls,        \* result of get_scraped_urls
    page,           \* the response scrape_latest_questions gets
    scraped,        \* result of scrape_latest_questions
    poll_doc,       \* the question_doc send_poll gets
    poll_calls,     \* the bot.send_poll calls send_poll made
    poll_result     \* how send_poll ended

fn_vars == <<fn_pc, store0, st_urls, page, scraped, poll_doc, poll_calls, poll_result>>

vars == <<main_vars, fn_vars>>

-----------------------------------------------------------------------------
(* Bounds *)

MaxAnchors == 2     \* link elements on the index page
MaxRuns == 2        \* runs of main() sharing one store
MaxDocs == 3        \* documents in an arbitrary store
MaxItems == 2       \* question containers on a detail page
MaxOptions == 4     \* options of a question_doc given to send_poll

-----------------------------------------------------------------------------
(* Sequences *)

Range(s) == {s[k] : k \in 1..Len(s)}

Front(s) == SubSeq(s, 1, Len(s) - 1)

Last(s) == s[Len(s)]

SeqsUpTo(S, n) == UNION {[1..k -> S] : k \in 0..n}

RECURSIVE SelectIdx(_, _)
\* positions of s holding value c, ascending
SelectIdx(s, c) ==
    IF s = <<>> THEN {}
    ELSE SelectIdx(Front(s), c) \cup (IF Last(s) = c THEN {Len(s)} ELSE {})

Min(S) == CHOOSE x \in S : \A y \in S : x <= y

Max(S) == CHOOSE x \in S : \A y \in S : x >= y

-----------------------------------------------------------------------------
(* The dedup store: src/main.py 94-111 *)

HasUrl(doc) == "url" \in DOMAIN doc

\* BSON values of the url field: null, or a string
BsonNull == [type |-> "null", v |-> <<"">>]

Str(s) == [type |-> "string", v |-> s]

\* Python truthiness of doc.get('url')
Truthy(val) == val.type = "string" /\ val.v # <<"">>

\* doc.get('url'): None when the field is missing
doc_get_url(doc) == IF HasUrl(doc) THEN doc.url ELSE BsonNull

get_scraped_urls(collection) ==
    {doc_get_url(doc).v : doc \in {d \in collection : Truthy(doc_get_url(d))}}

clean_up_falsy(collection) ==
    {doc \in collection : Truthy(doc_get_url(doc))}

\* delete_many({"url": {"$exists": False}})
clean_up_documents_without_url(collection) ==
    {doc \in collection : HasUrl(doc)}

NewId(collection) ==
    IF collection = {} THEN 1 ELSE Max({doc._id : doc \in collection}) + 1

update_one_no_upsert(collection, url) == collection

\* update_one({'url': url}, {'$set': {'url': url}}, upsert=True)
update_one_upsert(collection, url) ==
    IF \E doc \in collection : HasUrl(doc) /\ doc.url = Str(url)
    THEN collection
    ELSE collection \cup {[_id |-> NewId(collection), url |-> Str(url)]}

RECURSIVE store_scraped_urls(_, _)
store_scraped_urls(collection, urls) ==
    IF urls = <<>> THEN collection
    ELSE store_scraped_urls(update_one_upsert(collection, Head(urls)), Tail(urls))

-----------------------------------------------------------------------------
(* URLs and dates: src/main.py 82-85, 291-299, 314-327 *)

\* "https://www.indiabix.com/"
BaseUrl == <<"https:", "", "www.indiabix.com", "">>

\* urljoin(base, href): an absolute URL is kept, a path starting with "/"
\* replaces the base's path, any other path is resolved against the base's
\* directory
urljoin(base, href) ==
    IF href[1] = "https:" THEN href
    ELSE IF href[1] = "" /\ Len(href) > 1 THEN SubSeq(base, 1, 3) \o Tail(href)
    ELSE Front(base) \o href

\* seg.startswith("2024-" + month + "-"), for the segments that occur
StartsWith2024(seg, month) ==
    \/ month = "11" /\ seg \in {"2024-11-01", "2024-11-02", "2024-11-03"}
    \/ month = "10" /\ seg \in {"2024-10-30"}

\* f"/current-affairs/2024-{month_digit}-" in href
href_matches(href, month) ==
    \E k \in 2..(Len(href) - 1) :
        href[k] = "current-affairs" /\ StartsWith2024(href[k + 1], month)

\* datetime.strptime(s, "%Y-%m-%d"): the date, or ValueError (ok = FALSE)
strptime(seg) ==
    CASE seg = "2024-10-30" -> [ok |-> TRUE, ord |-> 20241030]
      [] seg = "2024-11-01" -> [ok |-> TRUE, ord |-> 20241101]
      [] seg = "2024-11-02" -> [ok |-> TRUE, ord |-> 20241102]
      [] seg = "2024-11-03" -> [ok |-> TRUE, ord |-> 20241103]
      [] OTHER -> [ok |-> FALSE, ord |-> 0]

\* x.split("/")[-2]; every joined URL has at least three segments
date_token(url) == url[Len(url) - 1]

sort_key(url) == strptime(date_token(url))

\* datetime.now() of extract_date_from_url's fallback
Today == [ok |-> TRUE, ord |-> 20241105]

extract_date_from_url(url) ==
    IF Len(url) >= 2 /\ strptime(date_token(url)).ok
    THEN strptime(date_token(url))
    ELSE Today

\* main 314-320: the new links of the index page, in page order
collect_valid_links(link_elements, month, stored) ==
    LET RECURSIVE go(_)
        go(els) ==
            IF els = <<>> THEN <<>>
            ELSE LET href == Last(els)
                     full_url == urljoin(BaseUrl, href)
                 IN IF href_matches(href, month) /\ full_url \notin stored
                    THEN Append(go(Front(els)), full_url)
                    ELSE go(Front(els))
    IN go(link_elements)

\* where list.sort puts x in the sorted list t: after every element whose
\* key is not greater (the sort is stable)
insert_sorted(x, t) ==
    LET n == Cardinality({k \in 1..Len(t) : sort_key(t[k]).ord <= sort_key(x).ord})
    IN SubSeq(t, 1, n) \o <<x>> \o SubSeq(t, n + 1, Len(t))

\* valid_links.sort(key=...) when every key is computable
sort_links(links) ==
    LET RECURSIVE go(_)
        go(s) == IF s = <<>> THEN <<>> ELSE insert_sorted(Last(s), go(Front(s)))
    IN go(links)

-----------------------------------------------------------------------------
(* Extraction of one detail page: src/main.py 113-152 *)

LBrace == <<123>>
RBrace == <<125>>

\* s.split('{', 1)[-1]
after_first_lbrace(s) ==
    LET at == SelectIdx(s, LBrace[1])
    IN IF at = {} THEN s ELSE SubSeq(s, Min(at) + 1, Len(s))

\* s.rsplit('}', 1)[0]
before_last_rbrace(s) ==
    LET at == SelectIdx(s, RBrace[1])
    IN IF at = {} THEN s ELSE SubSeq(s, 1, Max(at) - 1)

\* main 131: the key of a question container.  hidden_input is <<>> when
\* the input is missing, <<<<>>>> when it has no value attribute, <<<<v>>>>
\* when its value is v
value_in_braces(hidden_input) ==
    IF hidden_input # <<>> /\ hidden_input[1] # <<>>
    THEN before_last_rbrace(after_first_lbrace(hidden_input[1][1]))
    ELSE <<>>

\* main 125-134: what raises inside the per-item try block
item_raises_strict(div) ==
    \/ div.qtxt = <<>>
    \/ div.options_div = <<>>
    \/ \E k \in 1..Len(div.options_div[1]) : div.options_div[1][k] = <<>>
    \/ div.hidden_input = <<>>
    \/ div.hidden_input[1] = <<>>
    \/ div.answer_div = <<>>
    \/ div.answer_div[1] = <<>>

item_raises(div) ==
    \/ div.qtxt = <<>>                 \* None.text
    \/ div.options_div = <<>>          \* None.find_all
    \/ \E k \in 1..Len(div.options_div[1]) : div.options_div[1][k] = <<>>
    \/ div.answer_div = <<>>           \* None.find
    \/ div.answer_div[1] = <<>>        \* None.text

question_doc_of(div) ==
    [question |-> div.qtxt[1],
     options |-> [k \in 1..Len(div.options_div[1]) |-> div.options_div[1][k][1]],
     value_in_braces |-> value_in_braces(div.hidden_input),
     explanation |-> div.answer_div[1][1]]

RECURSIVE scrape_items(_)
scrape_items(divs) ==
    IF divs = <<>> THEN <<>>
    ELSE IF item_raises(Last(divs)) THEN scrape_items(Front(divs))
    ELSE Append(scrape_items(Front(divs)), question_doc_of(Last(divs)))

\* response.ok = FALSE: requests.get or raise_for_status raised
scrape_latest_questions(response) ==
    IF response.ok THEN scrape_items(response.divs) ELSE <<>>

-----------------------------------------------------------------------------
(* Poll delivery: src/main.py 51-80, 154-158 *)

\* length of truncate_text(text, max_length)
truncate_text(text, max_length) ==
    IF text > max_length THEN (max_length - 3) + 3 ELSE text

\* {chr(65+i): i for i in range(len(options))}
option_mapping(options) ==
    [c \in {<<65 + i>> : i \in 0..(Len(options) - 1)} |-> c[1] - 65]

send_poll_default_index(question_doc) ==
    LET options == [k \in 1..Len(question_doc.options) |->
                        truncate_text(question_doc.options[k], 100)]
        correct_option == question_doc.value_in_braces
        mapping == option_mapping(options)
    IN IF options = <<>> THEN <<>>
       ELSE <<[question |-> truncate_text(question_doc.question, 300),
               options |-> options,
               correct_option_id |->
                   IF correct_option \in DOMAIN mapping
                   THEN mapping[correct_option] ELSE 0,
               explanation |-> truncate_text(question_doc.explanation, 200)]>>

\* the bot.send_poll calls send_poll makes: none when the key is not mapped
send_poll(question_doc) ==
    LET options == [k \in 1..Len(question_doc.options) |->
                        truncate_text(question_doc.options[k], 100)]
        correct_option == question_doc.value_in_braces
        mapping == option_mapping(options)
    IN IF correct_option \notin DOMAIN mapping THEN <<>>
       ELSE <<[question |-> truncate_text(question_doc.question, 300),
               options |-> options,
               correct_option_id |-> mapping[correct_option],
               explanation |-> truncate_text(question_doc.explanation, 200)]>>

RECURSIVE send_new_questions_to_telegram(_)
\* all bot.send_poll calls made for a batch, in order
send_new_questions_to_telegram(new_questions) ==
    IF new_questions = <<>> THEN <<>>
    ELSE send_poll(Head(new_questions))
         \o send_new_questions_to_telegram(Tail(new_questions))

-----------------------------------------------------------------------------
(* Document rendering and delivery: src/main.py 258-289 *)

PdfFile == [ext |-> "pdf", n |-> 0]

DocxFile(n) == [ext |-> "docx", n |-> n]

\* files on disk after convert_docx_to_pdf; result is "ok",
\* "CalledProcessError" (non-zero exit) or "FileNotFoundError" (no output)
convert_docx_to_pdf(disk, result) ==
    IF result = "ok" THEN disk \cup {PdfFile} ELSE disk

\* send_pdf_to_telegram; outcomes[k] is what the k-th bot.send_document
\* call would give: "ok", "TimedOut" or "TelegramError" (both caught)
send_pdf_to_telegram(outcomes) ==
    [attempts |-> 1, res |-> outcomes[1]]

-----------------------------------------------------------------------------
(* Inputs of the pipeline *)

Months == {"10", "11"}

Href1 == <<"", "current-affairs", "2024-11-03", "">>
Href2 == <<"", "current-affairs", "2024-11-01", "">>
Href3 == <<"", "current-affairs", "2024-11-02">>
Href4 == <<"", "current-affairs", "2024-10-30", "">>

Hrefs == {Href1, Href2, Href3, Href4}

Url2 == urljoin(BaseUrl, Href2)

GoodDiv ==
    [qtxt |-> <<40>>,
     options_div |-> << << <<10>>, <<12>> >> >>,
     hidden_input |-> << << <<123, 66, 125>> >> >>,
     answer_div |-> << <<30>> >>]

NoKeyDiv == [GoodDiv EXCEPT !.hidden_input = <<>>]

\* what the GET of a detail page may give
Responses ==
    {[ok |-> FALSE, divs |-> <<>>],
     [ok |-> TRUE, divs |-> <<NoKeyDiv, GoodDiv>>]}

SendOutcomes ==
    {<<"ok", "ok", "ok", "ok">>,
     <<"TimedOut", "TimedOut", "TimedOut", "ok">>,
     <<"TelegramError", "ok", "ok", "ok">>}

InitStores == {{}, {[_id |-> 1], [_id |-> 2, url |-> Str(Url2)]}}

-----------------------------------------------------------------------------
(* main(): src/main.py 301-376 *)

Ended == {"done", "aborted"}

Cur == valid_links[link_i]

\* one entry of the history: event ev of the current run on the current link
Event(ev, n, res) ==
    [run |-> run, link |-> Cur, ev |-> ev, n |-> n, res |-> res, date |-> 0]

FnIdle ==
    /\ fn_pc = "off"
    /\ store0 = {}
    /\ st_urls = {}
    /\ page = [ok |-> FALSE, divs |-> <<>>]
    /\ scraped = <<>>
    /\ poll_doc = [question |-> 0, options |-> <<>>, value_in_braces |-> <<>>,
                   explanation |-> 0]
    /\ poll_calls = <<>>
    /\ poll_result = "none"

MainIdle ==
    /\ index = <<>>
    /\ run = 0
    /\ month_digit = "11"
    /\ pc = "off"
    /\ stored_urls = {}
    /\ valid_links = <<>>
    /\ link_i = 0
    /\ question_docs = <<>>
    /\ files = {}
    /\ created = {}
    /\ tmp_n = 0
    /\ attempts = 0
    /\ abort = "none"
    /\ log = <<>>

Init ==
    /\ store \in InitStores
    /\ index \in SeqsUpTo(Hrefs, MaxAnchors)
    /\ run = 0
    /\ month_digit \in Months
    /\ pc = "idle"
    /\ stored_urls = {}
    /\ valid_links = <<>>
    /\ link_i = 0
    /\ question_docs = <<>>
    /\ files = {}
    /\ created = {}
    /\ tmp_n = 0
    /\ attempts = 0
    /\ abort = "none"
    /\ log = <<>>
    /\ FnIdle

\* main 302-327: everything before the for loop
main_prologue(coll, link_elements, month, index_ok) ==
    LET cleaned == clean_up_documents_without_url(coll)
        su == get_scraped_urls(cleaned)
        vl == collect_valid_links(link_elements, month, su)
        sortable == \A k \in 1..Len(vl) : sort_key(vl[k]).ok
    IN [store |-> cleaned,
        stored_urls |-> su,
        valid_links |-> IF ~index_ok THEN <<>>
                        ELSE IF sortable THEN sort_links(vl) ELSE vl,
        pc |-> IF ~index_ok THEN "aborted"         \* raise_for_status
               ELSE IF vl = <<>> THEN "done"       \* No new valid links
               ELSE IF ~sortable THEN "aborted"    \* strptime in the sort key
               ELSE "scrape",
        abort |-> IF ~index_ok THEN "HTTPError"
                  ELSE IF vl # <<>> /\ ~sortable THEN "ValueError"
                  ELSE "none"]

StartRun ==
    /\ pc \in {"idle"} \cup Ended
    /\ run < MaxRuns
    /\ \E index_ok \in BOOLEAN :
        LET p == main_prologue(store, index, month_digit, index_ok)
        IN /\ store' = p.store
           /\ stored_urls' = p.stored_urls
           /\ valid_links' = p.valid_links
           /\ pc' = p.pc
           /\ abort' = p.abort
    /\ run' = run + 1
    /\ link_i' = 1
    /\ question_docs' = <<>>
    /\ created' = {}
    /\ attempts' = 0
    /\ UNCHANGED <<index, month_digit, files, tmp_n, log, fn_vars>>

\* main 375-376 and the loop header: on to the next link, or the end
Advance ==
    IF link_i < Len(valid_links)
    THEN /\ link_i' = link_i + 1
         /\ pc' = "scrape"
    ELSE /\ link_i' = link_i
         /\ pc' = "done"

after_scrape_always_store(docs) == "store"

\* main 334: if question_docs
after_scrape(docs) == IF docs # <<>> THEN "store" ELSE "next"

Scrape ==
    /\ pc = "scrape"
    /\ \E response \in Responses :
        LET docs == scrape_latest_questions(response)
        IN /\ question_docs' = docs
           /\ log' = Append(log, Event("scrape", Len(docs), ""))
           /\ IF after_scrape(docs) = "store"
              THEN pc' = "store" /\ link_i' = link_i
              ELSE Advance
    /\ UNCHANGED <<store, index, run, month_digit, stored_urls, valid_links,
                   files, created, tmp_n, attempts, abort, fn_vars>>

\* main 335
Store ==
    /\ pc = "store"
    /\ store' = store_scraped_urls(store, <<Cur>>)
    /\ log' = Append(log, Event("store", 0, ""))
    /\ pc' = "polls"
    /\ UNCHANGED <<index, run, month_digit, stored_urls, valid_links, link_i,
                   question_docs, files, created, tmp_n, attempts, abort, fn_vars>>

\* main 336
Polls ==
    /\ pc = "polls"
    /\ log' = Append(log, Event("polls",
                  Len(send_new_questions_to_telegram(question_docs)), ""))
    /\ pc' = "template"
    /\ UNCHANGED <<store, index, run, month_digit, stored_urls, valid_links,
                   link_i, question_docs, files, created, tmp_n, attempts,
                   abort, fn_vars>>

\* main 339-348: download_template raises, or the .docx is saved
Template ==
    /\ pc = "template"
    /\ \E ok \in BOOLEAN :
        IF ok
        THEN /\ tmp_n' = tmp_n + 1
             /\ files' = files \cup {DocxFile(tmp_n + 1)}
             /\ created' = created \cup {DocxFile(tmp_n + 1)}
             /\ log' = Append(log, Event("docx", 0, ""))
             /\ pc' = "convert"
             /\ abort' = abort
        ELSE /\ pc' = "aborted"
             /\ abort' = "RequestException"
             /\ log' = Append(log, Event("template_failed", 0, ""))
             /\ UNCHANGED <<tmp_n, files, created>>
    /\ UNCHANGED <<store, index, run, month_digit, stored_urls, valid_links,
                   link_i, question_docs, attempts, fn_vars>>

\* main 351-353
Convert ==
    /\ pc = "convert"
    /\ \E result \in {"ok", "CalledProcessError", "FileNotFoundError"} :
        /\ files' = convert_docx_to_pdf(files, result)
        /\ created' = created \cup (files' \ files)
        /\ log' = Append(log, Event("convert", 0, result))
        /\ IF result = "ok"
           THEN pc' = "send" /\ abort' = abort
           ELSE pc' = "aborted" /\ abort' = result
    /\ UNCHANGED <<store, index, run, month_digit, stored_urls, valid_links,
                   link_i, question_docs, tmp_n, attempts, fn_vars>>

\* main 356-366
Send ==
    /\ pc = "send"
    /\ \E outcomes \in SendOutcomes :
        LET r == send_pdf_to_telegram(outcomes)
        IN /\ attempts' = r.attempts
           /\ log' = Append(log, [Event("send_document", r.attempts, r.res)
                                    EXCEPT !.date = extract_date_from_url(Cur).ord])
    /\ pc' = "cleanup"
    /\ UNCHANGED <<store, index, run, month_digit, stored_urls, valid_links,
                   link_i, question_docs, files, created, tmp_n, abort, fn_vars>>

\* main 369-376
Cleanup ==
    /\ pc = "cleanup"
    /\ files' = files \ {DocxFile(tmp_n), PdfFile}
    /\ log' = Append(log, Event("cleanup", 0, ""))
    /\ Advance
    /\ UNCHANGED <<store, index, run, month_digit, stored_urls, valid_links,
                   question_docs, created, tmp_n, attempts, abort, fn_vars>>

Next ==
    \/ StartRun
    \/ Scrape
    \/ Store
    \/ Polls
    \/ Template
    \/ Convert
    \/ Send
    \/ Cleanup

Spec == Init /\ [][Next]_vars

-----------------------------------------------------------------------------
(* The dedup store on arbitrary contents *)

\* values the url field of a stored document may hold
UrlValues == <<BsonNull, Str(<<"">>), Str(Url2), Str(urljoin(BaseUrl, Href1))>>

DocOf(id, c) ==
    IF c = Len(UrlValues) + 1 THEN [_id |-> id]
    ELSE [_id |-> id, url |-> UrlValues[c]]

\* every collection of at most MaxDocs documents; c[id] = 0: no document id
ArbitraryStores ==
    {{DocOf(id, c[id]) : id \in {i \in 1..MaxDocs : c[i] # 0}} :
        c \in [1..MaxDocs -> 0..(Len(UrlValues) + 1)]}

InitStore ==
    /\ store \in ArbitraryStores
    /\ MainIdle
    /\ fn_pc = "start"
    /\ store0 = store
    /\ st_urls = {}
    /\ page = [ok |-> FALSE, divs |-> <<>>]
    /\ scraped = <<>>
    /\ poll_doc = [question |-> 0, options |-> <<>>, value_in_braces |-> <<>>,
                   explanation |-> 0]
    /\ poll_calls = <<>>
    /\ poll_result = "none"

StoreUnchanged ==
    UNCHANGED <<index, run, month_digit, pc, stored_urls, valid_links, link_i,
                question_docs, files, created, tmp_n, attempts, abort, log,
                page, scraped, poll_doc, poll_calls, poll_result>>

CleanUp ==
    /\ fn_pc = "start"
    /\ store0' = store
    /\ store' = clean_up_documents_without_url(store)
    /\ fn_pc' = "cleaned"
    /\ UNCHANGED st_urls
    /\ StoreUnchanged

ReadUrls ==
    /\ fn_pc \in {"start", "cleaned"}
    /\ st_urls' = get_scraped_urls(store)
    /\ store0' = store
    /\ fn_pc' = "read"
    /\ UNCHANGED store
    /\ StoreUnchanged

MarkSeen ==
    /\ fn_pc = "read"
    /\ \E url \in {Url2, urljoin(BaseUrl, Href1)} :
        store' = store_scraped_urls(store, <<url>>)
    /\ store0' = store
    /\ fn_pc' = "stored"
    /\ UNCHANGED st_urls
    /\ StoreUnchanged

NextStore == CleanUp \/ ReadUrls \/ MarkSeen

SpecStore == InitStore /\ [][NextStore]_vars

-----------------------------------------------------------------------------
(* scrape_latest_questions on arbitrary detail pages *)

HiddenInputs ==
    {<<>>,                                \* no input.jq-hdnakq
     << <<>> >>,                          \* input without a value attribute
     << << <<123, 67, 125>> >> >>,        \* value "{C}"
     << << <<123, 125>> >> >>,            \* value "{}"
     << << <<67>> >> >>,                  \* value "C"
     << << <<113, 123, 65, 125, 122>> >> >>}   \* value "q{A}z"

CompleteButKey(div) ==
    /\ div.qtxt # <<>>
    /\ div.options_div # <<>>
    /\ \A k \in 1..Len(div.options_div[1]) : div.options_div[1][k] # <<>>
    /\ div.answer_div # <<>>
    /\ div.answer_div[1] # <<>>

\* question containers: every combination of present and missing
\* sub-elements, and every hidden input on the otherwise complete ones
Containers ==
    {div \in [qtxt : {<<>>, <<40>>},
              options_div : {<<>>, << <<>> >>, << << <<10>>, <<>> >> >>,
                             << << <<10>>, <<12>>, <<9>> >> >>},
              hidden_input : HiddenInputs,
              answer_div : {<<>>, << <<>> >>, << <<30>> >>}] :
        \/ div.hidden_input \in {<<>>, << << <<123, 67, 125>> >> >>}
        \/ CompleteButKey(div)}

InitScrape ==
    /\ store = {}
    /\ MainIdle
    /\ fn_pc = "start"
    /\ store0 = {}
    /\ st_urls = {}
    /\ page \in {[ok |-> FALSE, divs |-> <<>>]}
                \cup [ok : {TRUE}, divs : SeqsUpTo(Containers, MaxItems)]
    /\ scraped = <<>>
    /\ poll_doc = [question |-> 0, options |-> <<>>, value_in_braces |-> <<>>,
                   explanation |-> 0]
    /\ poll_calls = <<>>
    /\ poll_result = "none"

ScrapePage ==
    /\ fn_pc = "start"
    /\ scraped' = scrape_latest_questions(page)
    /\ fn_pc' = "scraped"
    /\ UNCHANGED <<main_vars, store0, st_urls, page, poll_doc, poll_calls,
                   poll_result>>

NextScrape == ScrapePage

SpecScrape == InitScrape /\ [][NextScrape]_vars

-----------------------------------------------------------------------------
(* send_poll on arbitrary question_docs *)

\* "A".."?" one past the last possible option, "", "a", "AB", "@"
AnswerKeys ==
    {<<65 + i>> : i \in 0..MaxOptions} \cup {<<>>, <<97>>, <<65, 66>>, <<64>>}

InitPoll ==
    /\ store = {}
    /\ MainIdle
    /\ fn_pc = "start"
    /\ store0 = {}
    /\ st_urls = {}
    /\ page = [ok |-> FALSE, divs |-> <<>>]
    /\ scraped = <<>>
    /\ poll_doc \in [question : {40, 305},
                     options : UNION {[1..n -> {10}] : n \in 0..MaxOptions},
                     value_in_braces : AnswerKeys,
                     explanation : {30}]
    /\ poll_calls = <<>>
    /\ poll_result = "none"

\* send_poll; tg_ok = FALSE: bot.send_poll raises TelegramError
SendPoll ==
    /\ fn_pc = "start"
    /\ poll_calls' = send_poll(poll_doc)
    /\ \E tg_ok \in BOOLEAN :
        poll_result' = IF poll_calls' = <<>> THEN "skipped"
                       ELSE IF tg_ok THEN "sent" ELSE "TelegramError"
    /\ fn_pc' = "polled"
    /\ UNCHANGED <<main_vars, store0, st_urls, page, scraped, poll_doc>>

NextPoll == SendPoll

SpecPoll == InitPoll /\ [][NextPoll]_vars

-----------------------------------------------------------------------------
(* Properties of the pipeline, checked under Spec *)

LogIdx == 1..Len(log)

IsExtraction(e) == e.ev = "scrape" /\ e.n > 0

DeliveryFailed(e) ==
    \/ e.ev = "template_failed"
    \/ e.ev = "convert" /\ e.res # "ok"
    \/ e.ev = "send_document" /\ e.res # "ok"

SameItem(e, f) == e.run = f.run /\ e.link = f.link

\* the index links passing the year-month filter of the current run
Candidates ==
    {urljoin(BaseUrl, index[k]) :
        k \in {j \in 1..Len(index) : href_matches(index[j], month_digit)}}

\* the links the current run has fetched for extraction, in order
Processed ==
    LET InRun(e) == e.run = run /\ e.ev = "scrape"
        evs == SelectSeq(log, InRun)
    IN [k \in 1..Len(evs) |-> evs[k].link]

\* C1 (as amended): when a run has ended, every link whose extraction
\* returned at least one record in that run is in the seen set, and no later
\* run does anything for a link an earlier run extracted; a link whose
\* extraction returned nothing, or that the run never reached, is not marked.
C1_ExtractedLinksAreSeen ==
    /\ pc \in Ended =>
        \A k \in LogIdx :
            log[k].run = run /\ IsExtraction(log[k])
                => log[k].link \in get_scraped_urls(store)
    /\ \A j \in LogIdx, k \in LogIdx :
        IsExtraction(log[j]) /\ log[k].run > log[j].run
            => log[k].link # log[j].link
    /\ \A k \in LogIdx :
        log[k].ev = "scrape" /\ log[k].n = 0 /\ log[k].link \notin stored_urls
        /\ log[k].run = run
        /\ (\A j \in LogIdx : SameItem(log[j], log[k]) => ~IsExtraction(log[j]))
            => log[k].link \notin get_scraped_urls(store)

\* a second run over an unchanged index that finds every candidate seen and
\* sends nothing
C1_Witness ==
    /\ run = 2
    /\ pc = "done"
    /\ Candidates # {}
    /\ \E k \in LogIdx : log[k].run = 1 /\ IsExtraction(log[k])
                         /\ log[k].link \in Candidates
    /\ \A k \in LogIdx : log[k].run = 1

\* C1 (as stated): after a run finishes, the seen set contains every
\* candidate link discovered in that run.
C1_AllCandidatesSeen ==
    pc = "done" => Candidates \subseteq get_scraped_urls(store)

\* C2: a link is marked seen only right after its extraction returned at
\* least one record, and before any poll send, template download, render or
\* document send for it; a link whose rendering or delivery failed is in the
\* store and no later run processes it.
C2_MarkSeenTiming ==
    /\ pc = "store" => question_docs # <<>>
    /\ pc \in {"polls", "template", "convert", "send", "cleanup"} =>
        Cur \in get_scraped_urls(store) /\ question_docs # <<>>
    /\ \A k \in LogIdx :
        /\ log[k].ev = "store" =>
            k > 1 /\ IsExtraction(log[k - 1]) /\ SameItem(log[k - 1], log[k])
        /\ log[k].ev = "polls" =>
            k > 1 /\ log[k - 1].ev = "store" /\ SameItem(log[k - 1], log[k])
        /\ log[k].ev \in {"docx", "template_failed"} =>
            k > 1 /\ log[k - 1].ev = "polls" /\ SameItem(log[k - 1], log[k])
        /\ log[k].ev = "convert" =>
            k > 1 /\ log[k - 1].ev = "docx" /\ SameItem(log[k - 1], log[k])
        /\ log[k].ev = "send_document" =>
            k > 1 /\ log[k - 1].ev = "convert" /\ SameItem(log[k - 1], log[k])
    /\ \A k \in LogIdx :
        DeliveryFailed(log[k]) =>
            /\ log[k].link \in get_scraped_urls(store)
            /\ run > log[k].run => log[k].link \notin Range(valid_links)
            /\ \A j \in LogIdx : log[j].run > log[k].run
                                    => log[j].link # log[k].link

\* the converter failed for a link in the first run, and the second run,
\* with the link still on the index, ended without touching it
C2_Witness ==
    /\ run = 2
    /\ pc = "done"
    /\ \E k \in LogIdx :
        /\ log[k].run = 1
        /\ log[k].ev = "convert"
        /\ log[k].res # "ok"
        /\ log[k].link \in Candidates

\* C3: over all runs, each link is extracted at most once and its document
\* is sent with send_pdf_to_telegram at most once.
C3_AtMostOnce ==
    \A link \in {log[k].link : k \in LogIdx} :
        /\ Cardinality({k \in LogIdx : log[k].link = link
                                        /\ IsExtraction(log[k])}) <= 1
        /\ Cardinality({k \in LogIdx : log[k].link = link
                                        /\ log[k].ev = "send_document"}) <= 1

\* C4: a delivery whose attempts all time out is attempted exactly 3 times
\* and never a 4th; a failure of another class is attempted exactly once.
C4_RetryBound ==
    \A k \in LogIdx :
        log[k].ev = "send_document" =>
            /\ log[k].n <= 3
            /\ log[k].res = "TimedOut" => log[k].n = 3
            /\ log[k].res = "TelegramError" => log[k].n = 1

\* C5: when a run ends, on any exit path, the temporary .docx and the .pdf
\* it created have been removed.
C5_TempFilesRemoved ==
    pc \in Ended => created \cap files = {}

\* C8: the new links are processed in ascending order of their date token
\* when it is derivable; when it is not, they are processed in discovery
\* order and the run does not fail.
C8_ProcessingOrder ==
    LET discovered == collect_valid_links(index, month_digit, stored_urls)
    IN (run >= 1 /\ abort # "HTTPError") =>
        IF \A k \in 1..Len(discovered) : sort_key(discovered[k]).ok
        THEN \A i \in 1..Len(Processed), j \in 1..Len(Processed) :
                i < j => sort_key(Processed[i]).ord <= sort_key(Processed[j]).ord
        ELSE /\ abort # "ValueError"
             /\ Len(Processed) <= Len(discovered)
             /\ Processed = SubSeq(discovered, 1, Len(Processed))

\* C9: when the converter fails for one link's document the run does not
\* abort: every other new link of the run is still extracted.
C9_RenderFailureIsolation ==
    (/\ pc \in Ended
     /\ \E k \in LogIdx : log[k].run = run /\ log[k].ev = "convert"
                          /\ log[k].res # "ok")
        => Len(Processed) = Len(valid_links)

-----------------------------------------------------------------------------
(* Properties of send_poll, checked under SpecPoll *)

\* C6: with n options the key chr(65+i), 0 <= i < n, gives exactly one
\* bot.send_poll call with correct_option_id = i; any other key gives no call.
C6_AnswerKeyResolution ==
    fn_pc = "polled" =>
        LET n == Len(poll_doc.options)
            key == poll_doc.value_in_braces
        IN IF \E i \in 0..(n - 1) : key = <<65 + i>>
           THEN /\ Len(poll_calls) = 1
                /\ key = <<65 + poll_calls[1].correct_option_id>>
                /\ Len(poll_calls[1].options) = n
           ELSE poll_calls = <<>> /\ poll_result = "skipped"

\* key "C" with 4 options was resolved to index 2
C6_Witness ==
    /\ fn_pc = "polled"
    /\ poll_doc.value_in_braces = <<67>>
    /\ Len(poll_doc.options) = 4
    /\ Len(poll_calls) = 1
    /\ poll_calls[1].correct_option_id = 2

-----------------------------------------------------------------------------
(* Properties of the store operations, checked under SpecStore *)

\* C7: no member of the set get_scraped_urls returns comes from a document
\* lacking the url field; after clean_up_documents_without_url no document
\* lacking the field remains and every document having it is left as it was.
C7_MalformedStoreSelfHeal ==
    /\ fn_pc = "read" =>
        \A u \in st_urls : \E doc \in store0 : HasUrl(doc) /\ doc.url = Str(u)
    /\ fn_pc = "cleaned" =>
        /\ \A doc \in store : HasUrl(doc)
        /\ \A doc \in store0 : HasUrl(doc) => doc \in store
        /\ store \subseteq store0

\* the cleanup purged a document without url and kept one whose url is null
C7_Witness ==
    /\ fn_pc = "cleaned"
    /\ \E doc \in store0 : ~HasUrl(doc)
    /\ \E doc \in store : doc.url = BsonNull

-----------------------------------------------------------------------------
(* Properties of scrape_latest_questions, checked under SpecScrape *)

\* the containers whose question text, options block (with every option
\* value) and answer/explanation block are present
KeptItems == {k \in 1..Len(page.divs) : CompleteButKey(page.divs[k])}

HasKeyInput(div) == div.hidden_input # <<>> /\ div.hidden_input[1] # <<>>

\* C10 (as amended): a container missing its question text, options block,
\* an option value or its answer/explanation block is excluded, and the
\* others are returned in page order; a container missing only the hidden
\* answer-key input is still returned, with the empty key, and a value of
\* the form "{t}" gives the key t.
C10_PerItemIsolation ==
    (fn_pc = "scraped" /\ page.ok) =>
        /\ Len(scraped) = Cardinality(KeptItems)
        /\ \A k \in KeptItems :
            LET div == page.divs[k]
                doc == scraped[Cardinality({m \in KeptItems : m <= k})]
            IN /\ doc.question = div.qtxt[1]
               /\ Len(doc.options) = Len(div.options_div[1])
               /\ doc.explanation = div.answer_div[1][1]
               /\ ~HasKeyInput(div) => doc.value_in_braces = <<>>
               /\ (/\ HasKeyInput(div)
                   /\ Len(div.hidden_input[1][1]) >= 2
                   /\ Head(div.hidden_input[1][1]) = 123
                   /\ Last(div.hidden_input[1][1]) = 125)
                    => doc.value_in_braces =
                        SubSeq(div.hidden_input[1][1], 2,
                               Len(div.hidden_input[1][1]) - 1)

\* a page whose first container lacks its question text and whose second
\* lacks only the hidden input: one record, with the empty key
C10_Witness ==
    /\ fn_pc = "scraped"
    /\ Len(page.divs) = 2
    /\ page.divs[1].qtxt = <<>>
    /\ CompleteButKey(page.divs[2])
    /\ page.divs[2].hidden_input = <<>>
    /\ Len(scraped) = 1
    /\ scraped[1].value_in_braces = <<>>

\* C10 (as stated): a container missing any of the four sub-elements is
\* excluded, and every returned record has a non-empty key.
C10_AllFourRequired ==
    (fn_pc = "scraped" /\ page.ok) =>
        /\ Len(scraped) = Cardinality({k \in KeptItems :
                                          page.divs[k].hidden_input # <<>>})
        /\ \A j \in 1..Len(scraped) : scraped[j].value_in_braces # <<>>

====
